---- MODULE Spec2Model ----
(***************************************************************************)
(* A model of the data-access layer of the service: the user_roles, users, *)
(* tasks and projects tables and the repository operations, CRUD helpers   *)
(* and route handlers that read and write them.                            *)
(*                                                                         *)
(* Tables are sets of rows; a row is a record of columns.  Every column    *)
(* but the key holds an optional value: NULL is the empty tuple and a      *)
(* value v is stored as <<v>>.  A SQL statement is one atomic step.        *)
(***************************************************************************)
EXTENDS Integers, Sequences, FiniteSets, TLC

VARIABLES users, user_roles, tasks, tasks_id_seq, projects, projects_id_seq,
          now, role_req, del_req, sweep, last, upsert_req

vars == <<users, user_roles, tasks, tasks_id_seq, projects, projects_id_seq,
          now, role_req, del_req, sweep, last, upsert_req>>

(***************************************************************************)
(* Bounds of the model.                                                    *)
(***************************************************************************)
MaxUserId == 2
MaxRoleUserId == 1
MaxProjectId == 1
MaxTasks == 2
MaxProjects == 2
MaxClock == 3
MaxPage == 2
MaxPerPage == 2

(***************************************************************************)
(* Values.                                                                 *)
(***************************************************************************)
NULL == <<>>
Some(v) == <<v>>
Val(o) == o[1]

UserIds == 1..MaxUserId
RoleUserIds == 1..MaxRoleUserId
ProjectIds == 1..MaxProjectId

\* app/db/enums.py HTTPStatus
OK == 200
CREATED == 201
NO_CONTENT == 204
BAD_REQUEST == 400
NOT_FOUND == 404
CONFLICT == 409
INTERNAL_SERVER_ERROR == 500

\* app/db/enums.py ProjectRole, in declaration order
ProjectRole == <<"MAPPER", "VALIDATOR", "FIELD_MANAGER",
                 "ASSOCIATE_PROJECT_MANAGER", "PROJECT_MANAGER">>
ProjectRoles == {ProjectRole[i] : i \in 1..Len(ProjectRole)}
Rank(r) == CHOOSE i \in 1..Len(ProjectRole) : ProjectRole[i] = r

\* the order of the user_roles.role column type: the order of declaration
RoleLess(a, b) == Rank(a) < Rank(b)

\* What a repository or crud call gives its caller: whether it raised, the
\* status of the exception (or of the success), the table after it and the
\* value returned.
Returned(status, rows, result) ==
  [raised |-> FALSE, status |-> status, rows |-> rows, result |-> result]
Raised(status, rows) ==
  [raised |-> TRUE, status |-> status, rows |-> rows, result |-> NULL]

\* raise HTTPException(status_code=status, detail=detail): the detail is a
\* text, kept as the sequence of its pieces
RaisedWith(status, rows, detail) ==
  [raised |-> TRUE, status |-> status, rows |-> rows,
   result |-> Some([detail |-> detail])]

\* The process state of a request that is between two statements.
Idle == [pc |-> "idle"]

\* The record of the last completed call: what was called and what the
\* caller got back.
Call(op, args, status, result) ==
  [op |-> op, args |-> args, status |-> status, result |-> result]

(***************************************************************************)
(* DbUserRole (table user_roles).                                          *)
(***************************************************************************)
RoleRows(rows, user_id, project_id) ==
  {r \in rows : r.user_id = user_id /\ r.project_id = project_id}

\* INSERT .. ON CONFLICT (user_id, project_id) DO UPDATE SET role =
\* EXCLUDED.role with the WHERE clause left out: a conflicting row is
\* always overwritten
DbUserRole_upsert_overwrite(rows, project_id, user_id, role) ==
  (rows \ RoleRows(rows, user_id, project_id))
    \cup {[user_id |-> user_id, project_id |-> project_id, role |-> role]}

\* INSERT with no ON CONFLICT arbiter and no unique index: the row is added
\* next to whatever is there
DbUserRole_upsert_insert(rows, project_id, user_id, role) ==
  rows \cup {[user_id |-> user_id, project_id |-> project_id, role |-> role]}

\* INSERT INTO user_roles .. ON CONFLICT (user_id, project_id) DO UPDATE
\* SET role = EXCLUDED.role WHERE user_roles.role < EXCLUDED.role
DbUserRole_upsert(rows, project_id, user_id, role) ==
  LET new == [user_id |-> user_id, project_id |-> project_id, role |-> role]
      conflict == RoleRows(rows, user_id, project_id)
  IN  IF conflict = {}
        THEN rows \cup {new}
        ELSE (rows \ {r \in conflict : RoleLess(r.role, role)})
               \cup {new : r \in {c \in conflict : RoleLess(c.role, role)}}

\* DbUserRole.create, first statement
RoleUpsert(project_id, user_id, role) ==
  /\ role_req.pc = "idle"
  /\ user_roles' = DbUserRole_upsert(user_roles, project_id, user_id, role)
  /\ role_req' = [pc |-> "select", project_id |-> project_id,
                  user_id |-> user_id, role |-> role]
  /\ UNCHANGED <<users, tasks, tasks_id_seq, projects, projects_id_seq,
                 now, del_req, sweep, last, upsert_req>>

\* DbUserRole.create, second statement and the return
RoleSelect ==
  /\ role_req.pc = "select"
  /\ LET latest_role == RoleRows(user_roles, role_req.user_id,
                                 role_req.project_id)
         args == [project_id |-> role_req.project_id,
                  user_id |-> role_req.user_id, role |-> role_req.role]
     IN  last' = IF latest_role = {}
                   THEN Call("DbUserRole.create", args,
                             INTERNAL_SERVER_ERROR, NULL)
                   ELSE Call("DbUserRole.create", args, OK,
                             Some(CHOOSE r \in latest_role : TRUE))
  /\ role_req' = Idle
  /\ UNCHANGED <<users, user_roles, tasks, tasks_id_seq, projects,
                 projects_id_seq, now, del_req, sweep, upsert_req>>

\* the requests that call DbUserRole.create at the same time, one call each
RoleClients == {1, 2, 3}

\* DbUserRole.create called by client c, first statement; before is a
\* history field that no step reads: the rows of the pair as the statement
\* found them
ClientRoleUpsert(c, project_id, user_id, role) ==
  /\ upsert_req[c].pc = "idle"
  /\ user_roles' = DbUserRole_upsert(user_roles, project_id, user_id, role)
  /\ upsert_req' = [upsert_req EXCEPT ![c] =
                      [pc |-> "select", project_id |-> project_id,
                       user_id |-> user_id, role |-> role,
                       before |-> RoleRows(user_roles, user_id, project_id),
                       status |-> OK, result |-> NULL]]
  /\ UNCHANGED <<users, tasks, tasks_id_seq, projects, projects_id_seq,
                 now, role_req, del_req, sweep, last>>

\* DbUserRole.create called by client c, second statement and the return
ClientRoleSelect(c) ==
  /\ upsert_req[c].pc = "select"
  /\ LET latest_role == RoleRows(user_roles, upsert_req[c].user_id,
                                 upsert_req[c].project_id)
     IN  upsert_req' =
           [upsert_req EXCEPT
              ![c].pc = "done",
              ![c].status = IF latest_role = {}
                              THEN INTERNAL_SERVER_ERROR ELSE OK,
              ![c].result = IF latest_role = {} THEN NULL
                            ELSE Some(CHOOSE r \in latest_role : TRUE)]
  /\ UNCHANGED <<users, user_roles, tasks, tasks_id_seq, projects,
                 projects_id_seq, now, role_req, del_req, sweep, last>>

(***************************************************************************)
(* DbUser.delete: two statements.                                          *)
(***************************************************************************)
\* DbUser.delete without its first statement
DeleteUserRoles_skipped(rows, user_id) == rows

\* DELETE FROM user_roles WHERE user_id = %(user_id)s
DeleteUserRoles(rows, user_id) == {r \in rows : r.user_id # user_id}

\* DELETE FROM users WHERE id = %(user_id)s
DeleteUserRow(rows, user_id) == {u \in rows : u.id # user_id}

\* DbUser.delete that raises when its DELETE FROM users matched no row
delete_raises_if_missing(rows, user_id) ==
  ~\E u \in rows : u.id = user_id

\* DbUser.delete executes its two DELETE statements and returns: it never
\* reads cur.rowcount, so a DELETE that matched no row raises nothing
delete_raises(rows, user_id) == FALSE

UserDeleteRoles(user_id) ==
  /\ del_req.pc = "idle"
  /\ user_roles' = DeleteUserRoles(user_roles, user_id)
  /\ del_req' = [pc |-> "users", user_id |-> user_id]
  /\ UNCHANGED <<users, tasks, tasks_id_seq, projects, projects_id_seq,
                 now, role_req, sweep, last, upsert_req>>

UserDeleteUser ==
  /\ del_req.pc = "users"
  /\ users' = DeleteUserRow(users, del_req.user_id)
  /\ del_req' = Idle
  /\ last' = Call("DbUser.delete", [user_id |-> del_req.user_id],
                  IF delete_raises(users, del_req.user_id)
                    THEN INTERNAL_SERVER_ERROR ELSE NO_CONTENT,
                  NULL)
  /\ UNCHANGED <<user_roles, tasks, tasks_id_seq, projects, projects_id_seq,
                 now, role_req, sweep, upsert_req>>

(***************************************************************************)
(* Input models.  An input model is a record of its fields; a field that   *)
(* was not set holds Unset, a field that was set holds Set(v), where v is  *)
(* NULL for None.                                                          *)
(***************************************************************************)
Unset == <<>>
Set(v) == <<v>>
Keys(m) == {k \in DOMAIN m : m[k] # Unset}
Opt(values) == {Unset, Set(NULL)} \cup {Set(Some(v)) : v \in values}

\* model_dump(exclude_unset=True) alone: None values stay in the dump
model_dump_keep_none(db_model) == db_model

\* model_dump(exclude_none=True, exclude_unset=True)
model_dump(db_model) ==
  [k \in DOMAIN db_model |->
     IF db_model[k] = Set(NULL) THEN Unset ELSE db_model[k]]

\* the row with the columns of the dump assigned
Assign(row, dump) ==
  [c \in DOMAIN row |-> IF c \in Keys(dump) THEN dump[c][1] ELSE row[c]]

(***************************************************************************)
(* DbUser (table users).                                                   *)
(***************************************************************************)
UsernameOf(i) == <<"u", ToString(i)>>
Usernames == {UsernameOf(i) : i \in UserIds}
Names == {<<"n">>}

\* user_crud.py
INACTIVITY_THRESHOLD == 2 * 365

\* The clock starts late enough for an account to be overdue.
Epoch == INACTIVITY_THRESHOLD + 2
LoginTimes == {Epoch - INACTIVITY_THRESHOLD - 1, Epoch - INACTIVITY_THRESHOLD,
               Epoch - INACTIVITY_THRESHOLD + 1, Epoch}

UserColumns == {"id", "username", "name", "last_login_at"}
UserUpdateFields == {"name", "last_login_at"}

\* a new users row: the columns the INSERT does not name are NULL
NewUserRow(id, username, dump) ==
  [c \in UserColumns |->
     IF c = "id" THEN id
     ELSE IF c = "username" THEN username
     ELSE IF c \in Keys(dump) THEN dump[c][1] ELSE NULL]

\* cls.one(db, user_in.username) is called without await: the value tested
\* is the coroutine object, which is truthy whatever the table holds
username_taken(rows, username) == TRUE

\* DbUser.create
DbUser_create(rows, user_in, ignore_conflict) ==
  IF ~ignore_conflict /\ username_taken(rows, user_in.username)
    THEN Raised(CONFLICT, rows)
    ELSE
      LET dump == model_dump(user_in.fields)
          new == NewUserRow(user_in.id, user_in.username, dump)
          same_name == {u \in rows : u.username = new.username}
          same_id == {u \in rows : u.id = new.id}
      IN  IF ignore_conflict /\ same_name # {}
                /\ same_id \subseteq same_name
            THEN \* ON CONFLICT ("username") DO UPDATE SET name = EXCLUDED.name
              LET old == CHOOSE u \in same_name : TRUE
                  upd == [old EXCEPT !.name = new.name]
              IN  Returned(OK, (rows \ {old}) \cup {upd}, Some(upd))
          ELSE IF same_name # {} \/ same_id # {}
            THEN \* unique violation raised by the driver
              Raised(INTERNAL_SERVER_ERROR, rows)
          ELSE Returned(OK, rows \cup {new}, Some(new))

\* DbUser.update
DbUser_update(rows, user_id, user_update) ==
  LET dump == model_dump(user_update)
      hit == {u \in rows : u.id = user_id}
  IN  IF Keys(dump) = {}
        THEN Raised(BAD_REQUEST, rows)
      ELSE IF hit = {}
        THEN Raised(INTERNAL_SERVER_ERROR, rows)
      ELSE LET old == CHOOSE u \in hit : TRUE
               upd == Assign(old, dump)
           IN  Returned(OK, (rows \ {old}) \cup {upd}, Some(upd))

\* UserIn: id and username are mandatory, the other fields optional
UserIns ==
  [id : UserIds, username : Usernames,
   fields : [name : Opt(Names), last_login_at : Opt(LoginTimes)]]

\* UserUpdate: any of the fields, each set to a value or to None
UserUpdates == [name : Opt(Names), last_login_at : Opt({Epoch})]

UserCreate(user_in, ignore_conflict) ==
  /\ del_req.pc = "idle"
  /\ LET r == DbUser_create(users, user_in, ignore_conflict)
     IN  /\ users' = r.rows
         /\ last' = Call("DbUser.create",
                         [user_in |-> user_in,
                          ignore_conflict |-> ignore_conflict],
                         r.status, r.result)
  /\ UNCHANGED <<user_roles, tasks, tasks_id_seq, projects, projects_id_seq,
                 now, role_req, del_req, sweep, upsert_req>>

\* PATCH /users/{user_id}
UserUpdate(user_id, user_update) ==
  /\ del_req.pc = "idle"
  /\ LET r == DbUser_update(users, user_id, user_update)
     IN  /\ users' = r.rows
         /\ last' = Call("DbUser.update",
                         [id |-> user_id, input |-> user_update],
                         r.status, r.result)
  /\ UNCHANGED <<user_roles, tasks, tasks_id_seq, projects, projects_id_seq,
                 now, role_req, del_req, sweep, upsert_req>>

(***************************************************************************)
(* process_inactive_users: one SELECT, then DbUser.delete for each row it  *)
(* returned.  sweep[s].before keeps the tables as the SELECT saw them; it  *)
(* is a history field that no step reads.                                  *)
(***************************************************************************)
Sweepers == {1, 2}

\* WHERE last_login_at <= %(deletion_threshold)s
overdue_inclusive(u, deletion_threshold) ==
  u.last_login_at # NULL /\ Val(u.last_login_at) <= deletion_threshold

\* WHERE last_login_at < %(deletion_threshold)s: never true of a NULL
overdue(u, deletion_threshold) ==
  u.last_login_at # NULL /\ Val(u.last_login_at) < deletion_threshold

SweepSelect(s) ==
  /\ sweep[s].pc = "idle"
  /\ LET deletion_threshold == now - INACTIVITY_THRESHOLD
         users_to_delete == {u.id : u \in {x \in users :
                                           overdue(x, deletion_threshold)}}
     IN  sweep' = [sweep EXCEPT ![s] =
                     [pc |-> "loop", todo |-> users_to_delete, user_id |-> 0,
                      deletion_threshold |-> deletion_threshold,
                      before |-> [users |-> users,
                                  user_roles |-> user_roles]]]
  /\ UNCHANGED <<users, user_roles, tasks, tasks_id_seq, projects,
                 projects_id_seq, now, role_req, del_req, last, upsert_req>>

\* the loop takes the next user: DbUser.delete, first statement
SweepDeleteRoles(s) ==
  /\ sweep[s].pc = "loop"
  /\ \E id \in sweep[s].todo :
       /\ user_roles' = DeleteUserRoles(user_roles, id)
       /\ sweep' = [sweep EXCEPT ![s].pc = "users", ![s].user_id = id]
  /\ UNCHANGED <<users, tasks, tasks_id_seq, projects, projects_id_seq,
                 now, role_req, del_req, last, upsert_req>>

\* DbUser.delete, second statement
SweepDeleteUser(s) ==
  /\ sweep[s].pc = "users"
  /\ users' = DeleteUserRow(users, sweep[s].user_id)
  /\ IF delete_raises(users, sweep[s].user_id)
       THEN /\ sweep' = [sweep EXCEPT ![s].pc = "failed"]
            /\ last' = Call("process_inactive_users", [sweeper |-> s],
                            INTERNAL_SERVER_ERROR, NULL)
       ELSE /\ sweep' = [sweep EXCEPT ![s].pc = "loop",
                                      ![s].todo = @ \ {sweep[s].user_id}]
            /\ last' = last
  /\ UNCHANGED <<user_roles, tasks, tasks_id_seq, projects, projects_id_seq,
                 now, role_req, del_req, upsert_req>>

\* a DELETE of DbUser.delete raises (the storage fails): nothing in the
\* loop catches it, so process_inactive_users ends there and the route
\* answers 500
SweepDeleteFails(s) ==
  /\ \/ /\ sweep[s].pc = "loop"
        /\ \E id \in sweep[s].todo :
             sweep' = [sweep EXCEPT ![s].pc = "failed", ![s].user_id = id]
     \/ /\ sweep[s].pc = "users"
        /\ sweep' = [sweep EXCEPT ![s].pc = "failed"]
  /\ last' = Call("process_inactive_users", [sweeper |-> s],
                  INTERNAL_SERVER_ERROR, NULL)
  /\ UNCHANGED <<users, user_roles, tasks, tasks_id_seq, projects,
                 projects_id_seq, now, role_req, del_req, upsert_req>>

\* the loop is over and the route answers
SweepReturn(s) ==
  /\ sweep[s].pc = "loop"
  /\ sweep[s].todo = {}
  /\ sweep' = [sweep EXCEPT ![s].pc = "done"]
  /\ last' = Call("process_inactive_users", [sweeper |-> s], NO_CONTENT, NULL)
  /\ UNCHANGED <<users, user_roles, tasks, tasks_id_seq, projects,
                 projects_id_seq, now, role_req, del_req, upsert_req>>

(***************************************************************************)
(* DbTask (table tasks) and task_crud.                                     *)
(***************************************************************************)
TaskColumns == {"id", "title", "description", "due_date", "is_completed",
                "created_at", "updated_at"}
TaskIds == 1..(MaxTasks + 1)

\* try: .. except Exception as e: raise HTTPException(500, str(e)):
\* HTTPException is an Exception, so whatever the body raised becomes a 500
except_Exception(r) ==
  IF r.raised THEN Raised(INTERNAL_SERVER_ERROR, r.rows) ELSE r

\* TaskCreate: title is required, is_completed is a bool
TaskCreates ==
  [title : {Set(Some(<<"a">>))},
   description : {Unset, Set(Some(<<"d">>))},
   due_date : {Unset, Set(Some(Epoch))},
   is_completed : {Unset}]

\* TaskUpdate: every field optional
TaskUpdates ==
  [title : {Unset, Set(Some(<<"b">>))},
   description : Opt({<<>>}),
   due_date : {Unset, Set(NULL)},
   is_completed : Opt({TRUE})]

\* a new tasks row: id from the sequence, is_completed false and the other
\* columns NULL unless the INSERT names them
NewTaskRow(id, dump) ==
  [c \in TaskColumns |->
     IF c = "id" THEN id
     ELSE IF c \in Keys(dump) THEN dump[c][1]
     ELSE IF c = "is_completed" THEN Some(FALSE) ELSE NULL]

\* DbTask.create
DbTask_create(rows, id, task_in, t) ==
  LET dump == model_dump(task_in)
  IN  IF Keys(dump) = {}
        THEN Raised(BAD_REQUEST, rows)
        ELSE LET stamped == [c \in DOMAIN dump \cup {"created_at", "updated_at"}
                               |-> IF c \in {"created_at", "updated_at"}
                                     THEN Set(Some(t)) ELSE dump[c]]
                 new == NewTaskRow(id, stamped)
             IN  Returned(CREATED, rows \cup {new}, Some(new))

\* create_task
create_task(rows, id, task, t) ==
  LET r == DbTask_create(rows, id, task, t)
  IN  except_Exception(
        IF ~r.raised /\ r.result = NULL
          THEN Raised(INTERNAL_SERVER_ERROR, r.rows) ELSE r)

\* DbTask.one
DbTask_one(rows, task_id) ==
  LET hit == {x \in rows : x.id = task_id}
  IN  IF hit = {} THEN Raised(NOT_FOUND, rows)    \* KeyError
      ELSE Returned(OK, rows, Some(CHOOSE x \in hit : TRUE))

\* get_task: except KeyError comes before except Exception and raises
\* HTTPException(404, f"Task with id {task_id} not found")
get_task(rows, task_id) ==
  LET r == DbTask_one(rows, task_id)
  IN  IF r.raised
        THEN RaisedWith(NOT_FOUND, r.rows,
                        <<"Task with id ", ToString(task_id), " not found">>)
        ELSE r

\* DbTask.update that sets every column of the model, the unset ones to NULL
DbTask_update_all_fields(rows, task_id, task_update, t) ==
  LET dump == model_dump(task_update)
      hit == {x \in rows : x.id = task_id}
  IN  IF Keys(dump) = {} THEN Raised(BAD_REQUEST, rows)
      ELSE IF hit = {} THEN Raised(INTERNAL_SERVER_ERROR, rows)
      ELSE LET old == CHOOSE x \in hit : TRUE
               upd == [c \in TaskColumns |->
                         IF c \in {"id", "created_at"} THEN old[c]
                         ELSE IF c = "updated_at" THEN Some(t)
                         ELSE IF c \in Keys(dump) THEN dump[c][1] ELSE NULL]
           IN  Returned(OK, (rows \ {old}) \cup {upd}, Some(upd))

\* DbTask.update
DbTask_update(rows, task_id, task_update, t) ==
  LET dump == model_dump(task_update)
      hit == {x \in rows : x.id = task_id}
  IN  IF Keys(dump) = {}
        THEN Raised(BAD_REQUEST, rows)
      ELSE IF hit = {}
        THEN Raised(INTERNAL_SERVER_ERROR, rows)
      ELSE LET stamped == [c \in DOMAIN dump \cup {"updated_at"} |->
                             IF c = "updated_at" THEN Set(Some(t))
                             ELSE dump[c]]
               old == CHOOSE x \in hit : TRUE
               upd == Assign(old, stamped)
           IN  Returned(OK, (rows \ {old}) \cup {upd}, Some(upd))

\* update_task
update_task(rows, task_id, task, t) ==
  LET r == DbTask_update(rows, task_id, task, t)
  IN  except_Exception(
        IF ~r.raised /\ r.result = NULL
          THEN Raised(NOT_FOUND, r.rows) ELSE r)

\* DbTask.delete that returns True whatever the row count
DbTask_delete_always_true(rows, task_id) ==
  Returned(OK, {x \in rows : x.id # task_id}, Some(TRUE))

\* DbTask.delete: DELETE FROM tasks WHERE id = ..; return cur.rowcount > 0
DbTask_delete(rows, task_id) ==
  LET hit == {x \in rows : x.id = task_id}
  IN  Returned(OK, rows \ hit, Some(hit # {}))

\* delete_task
delete_task(rows, task_id) ==
  LET r == DbTask_delete(rows, task_id)
  IN  except_Exception(
        IF ~r.raised /\ r.result = Some(FALSE)
          THEN Raised(NOT_FOUND, r.rows)
          ELSE Returned(NO_CONTENT, r.rows, NULL))

\* POST /tasks/
TaskCreate(task) ==
  /\ tasks_id_seq <= MaxTasks
  /\ now < Epoch + MaxClock
  /\ LET r == create_task(tasks, tasks_id_seq, task, now)
     IN  /\ tasks' = r.rows
         /\ last' = Call("create_task", [input |-> task], r.status, r.result)
  /\ tasks_id_seq' = tasks_id_seq + 1
  /\ now' = now + 1
  /\ UNCHANGED <<users, user_roles, projects, projects_id_seq, role_req,
                 del_req, sweep, upsert_req>>

\* DbTask.delete(db, task_id) called on its own; the bool it returns is
\* kept as the field deleted of the result
TaskDbDelete(task_id) ==
  /\ LET r == DbTask_delete(tasks, task_id)
     IN  /\ tasks' = r.rows
         /\ last' = Call("DbTask.delete", [id |-> task_id], r.status,
                         Some([deleted |-> Val(r.result)]))
  /\ UNCHANGED <<users, user_roles, tasks_id_seq, projects, projects_id_seq,
                 now, role_req, del_req, sweep, upsert_req>>

\* GET /tasks/{task_id}
TaskGet(task_id) ==
  /\ LET r == get_task(tasks, task_id)
     IN  last' = Call("get_task", [id |-> task_id], r.status, r.result)
  /\ UNCHANGED <<users, user_roles, tasks, tasks_id_seq, projects,
                 projects_id_seq, now, role_req, del_req, sweep, upsert_req>>

\* PATCH /tasks/{task_id}
TaskUpdate(task_id, task) ==
  /\ now < Epoch + MaxClock
  /\ LET r == update_task(tasks, task_id, task, now)
     IN  /\ tasks' = r.rows
         /\ last' = Call("update_task", [id |-> task_id, input |-> task],
                         r.status, r.result)
  /\ now' = now + 1
  /\ UNCHANGED <<users, user_roles, tasks_id_seq, projects, projects_id_seq,
                 role_req, del_req, sweep, upsert_req>>

\* DELETE /tasks/{task_id}
TaskDelete(task_id) ==
  /\ LET r == delete_task(tasks, task_id)
     IN  /\ tasks' = r.rows
         /\ last' = Call("delete_task", [id |-> task_id], r.status, r.result)
  /\ UNCHANGED <<users, user_roles, tasks_id_seq, projects, projects_id_seq,
                 now, role_req, del_req, sweep, upsert_req>>

(***************************************************************************)
(* Text search: text is a tuple of characters; ILIKE is LIKE on the        *)
(* lower-cased text and pattern, with % for any run of characters, _ for   *)
(* any one character and backslash to take the next character literally.   *)
(***************************************************************************)
Lower(c) ==
  IF c = "A" THEN "a" ELSE IF c = "B" THEN "b" ELSE IF c = "D" THEN "d"
  ELSE IF c = "U" THEN "u" ELSE c

RECURSIVE Like(_, _)
Like(s, pat) ==
  IF pat = <<>> THEN s = <<>>
  ELSE IF Head(pat) = "%"
    THEN Like(s, Tail(pat)) \/ (s # <<>> /\ Like(Tail(s), pat))
  ELSE IF Head(pat) = "\\" /\ Len(pat) >= 2
    THEN /\ s # <<>>
         /\ Lower(Head(s)) = Lower(pat[2])
         /\ Like(Tail(s), Tail(Tail(pat)))
  ELSE /\ s # <<>>
       /\ (Head(pat) = "_" \/ Lower(Head(s)) = Lower(Head(pat)))
       /\ Like(Tail(s), Tail(pat))

\* column ILIKE pattern: not true of a NULL column
ILike(column, pat) == column # NULL /\ Like(Val(column), pat)

\* f"%{search}%"
Contains(search) == <<"%">> \o search \o <<"%">>

\* ORDER BY created_at DESC
RECURSIVE OrderByCreatedDesc(_)
OrderByCreatedDesc(rows) ==
  IF rows = {} THEN <<>>
  ELSE LET first == CHOOSE x \in rows :
                      \A y \in rows : Val(x.created_at) >= Val(y.created_at)
       IN  <<first>> \o OrderByCreatedDesc(rows \ {first})

\* LIMIT limit with the OFFSET left out
LimitOffset_no_offset(seq, limit, offset) ==
  SubSeq(seq, 1, IF limit < Len(seq) THEN limit ELSE Len(seq))

\* LIMIT limit OFFSET offset
LimitOffset(seq, limit, offset) ==
  SubSeq(seq, offset + 1,
         IF offset + limit < Len(seq) THEN offset + limit ELSE Len(seq))

Range(seq) == {seq[i] : i \in 1..Len(seq)}

(***************************************************************************)
(* Listings of users and tasks: DbUser.all, DbTask.all and the paginated   *)
(* helpers of user_crud and task_crud.                                     *)
(***************************************************************************)
UserSearches == {<<>>, <<"U">>, <<"2">>, <<"_">>}
TaskSearches == {<<>>, <<"D">>, <<"%">>}

\* `if skip and limit`: None and 0 are both falsy
Truthy(o) == o # NULL /\ Val(o) # 0

\* users[start_index:end_index]
Slice(seq, start_index, end_index) ==
  LimitOffset(seq, end_index - start_index, start_index)

\* the orders in which a SELECT may give the rows when the ORDER BY column
\* does not tell them apart: no user row of the model holds a registered_at
Orders(rows) ==
  {q \in [1..Cardinality(rows) -> rows] :
     \A i, j \in 1..Cardinality(rows) : q[i] = q[j] => i = j}

\* if search: username ILIKE %(search)s, with f"%{search}%"
UserMatches(u, search) ==
  search = <<>> \/ Like(u.username, Contains(search))

\* DbUser.all
DbUser_all(order, skip, limit, search) ==
  LET matching == SelectSeq(order, LAMBDA u : UserMatches(u, search))
  IN  IF Truthy(skip) /\ Truthy(limit)
        THEN LimitOffset(matching, Val(limit), Val(skip))
        ELSE matching

\* app.db.utils.get_pagination(page, count, results_per_page, total)
get_pagination(page, count, results_per_page, total) ==
  [page |-> page,
   per_page |-> results_per_page,
   total |-> total,
   total_pages |-> (total + results_per_page - 1) \div results_per_page,
   has_next |-> page * results_per_page < total,
   has_prev |-> page > 1,
   next_num |-> IF page * results_per_page < total
                  THEN Some(page + 1) ELSE NULL,
   prev_num |-> IF page > 1 THEN Some(page - 1) ELSE NULL]

\* get_paginated_users that hands get_pagination the length of the page as
\* the total
get_paginated_users_page_total(rows, order, page, results_per_page, search) ==
  LET all == DbUser_all(order, NULL, NULL, search)
      start_index == (page - 1) * results_per_page
      end_index == start_index + results_per_page
      paginated_users == Slice(all, start_index, end_index)
  IN  Returned(OK, rows,
               Some([results |-> paginated_users,
                     pagination |-> Some(get_pagination(
                                      page, Len(paginated_users),
                                      results_per_page,
                                      Len(paginated_users)))]))

\* user_crud.get_paginated_users
get_paginated_users(rows, order, page, results_per_page, search) ==
  LET all == DbUser_all(order, NULL, NULL, search)
      start_index == (page - 1) * results_per_page
      end_index == start_index + results_per_page
      paginated_users == Slice(all, start_index, end_index)
  IN  Returned(OK, rows,
               Some([results |-> paginated_users,
                     pagination |-> Some(get_pagination(
                                      page, Len(paginated_users),
                                      results_per_page,
                                      Len(all)))]))

\* GET /users/usernames: DbUser.all(db, search=search) as (id, username);
\* the list answered is the field results of the result
get_userlist(rows, order, search) ==
  LET all == DbUser_all(order, NULL, NULL, search)
  IN  Returned(OK, rows,
               Some([results |->
                       [i \in 1..Len(all) |->
                          [id |-> all[i].id, username |-> all[i].username]]]))

\* try: id = int(id) succeeds: the text is a run of decimal digits (the
\* signs, blanks and underscores that int() also takes are left out)
Digits == {ToString(d) : d \in 0..9}
IsNumeric(text) == text # <<>> /\ \A i \in 1..Len(text) : text[i] \in Digits

\* int(id)
RECURSIVE ParseInt(_)
ParseInt(text) ==
  IF text = <<>> THEN 0
  ELSE ParseInt(SubSeq(text, 1, Len(text) - 1)) * 10
         + (CHOOSE d \in 0..9 : ToString(d) = text[Len(text)])

\* jsonb_object_agg(COALESCE(ur.project_id), COALESCE(ur.role, 'MAPPER'))
\* FILTER (WHERE ur.project_id IS NOT NULL): the project:role pairs of the
\* user's rows, NULL when the user has none
roles_agg(role_rows, user_id) ==
  LET mine == {r \in role_rows : r.user_id = user_id}
  IN  IF mine = {} THEN NULL
      ELSE Some({<<r.project_id, r.role>> : r \in mine})

\* the fields of DbUser that the model keeps
DbUserFields == UserColumns \cup {"project_roles"}

\* class_row(DbUser): DbUser(**row); a column that is no field of the model
\* is dropped and a field that is no column keeps its default, None
class_row_DbUser(row) ==
  [c \in DbUserFields |-> IF c \in DOMAIN row THEN row[c] ELSE NULL]

\* DbUser.one: u.* and the aggregate AS roles, WHERE u.id = .. for an int,
\* WHERE u.username ILIKE f"{user_identifier}%" for a str; fetchone takes
\* the first row of the order the storage gives
DbUser_one(rows, role_rows, is_int, user_identifier, order) ==
  LET matching ==
        SelectSeq(order,
                  LAMBDA u : IF is_int THEN u.id = user_identifier
                             ELSE Like(u.username,
                                       user_identifier \o <<"%">>))
      shown == IF is_int THEN <<ToString(user_identifier)>>
               ELSE user_identifier \o <<"%">>
  IN  IF matching = <<>>
        THEN RaisedWith(NOT_FOUND, rows,
                        <<"User (">> \o shown \o <<") not found.">>)
        ELSE LET u == Head(matching)
                 row == [c \in DOMAIN u \cup {"roles"} |->
                           IF c = "roles" THEN roles_agg(role_rows, u.id)
                           ELSE u[c]]
             IN  Returned(OK, rows, Some(class_row_DbUser(row)))

\* user_deps.get_user: int(id) if it parses, else the text; KeyError becomes
\* HTTPException(404, detail=str(e)), the message within quotes
get_user(rows, role_rows, id, order) ==
  LET r == IF IsNumeric(id)
             THEN DbUser_one(rows, role_rows, TRUE, ParseInt(id), order)
             ELSE DbUser_one(rows, role_rows, FALSE, id, order)
  IN  IF r.raised
        THEN RaisedWith(NOT_FOUND, r.rows,
                        <<"'">> \o Val(r.result).detail \o <<"'">>)
        ELSE r

\* the identifiers asked for: ids, a missing id, username prefixes, a
\* username, a LIKE pattern and a text that starts no username
UserIdentifiers ==
  {<<"1">>, <<"2">>, <<"9">>, <<"U">>, <<"u", "2">>, <<"_", "1">>, <<"x">>}

\* GET /users/{id}
UserGet(id, order) ==
  /\ order \in Orders(users)
  /\ LET r == get_user(users, user_roles, id, order)
     IN  last' = Call("get_user", [identifier |-> id], r.status, r.result)
  /\ UNCHANGED <<users, user_roles, tasks, tasks_id_seq, projects,
                 projects_id_seq, now, role_req, del_req, sweep, upsert_req>>

\* if search: (title ILIKE %(search)s OR description ILIKE %(search)s)
TaskMatches(x, search) ==
  \/ search = <<>>
  \/ ILike(x.title, Contains(search))
  \/ ILike(x.description, Contains(search))

\* DbTask.all; storage_error: cur.execute raises
DbTask_all(rows, skip, limit, search, storage_error) ==
  IF storage_error THEN Raised(INTERNAL_SERVER_ERROR, rows)
  ELSE LET ordered == OrderByCreatedDesc(
                        {x \in rows : TaskMatches(x, search)})
       IN  Returned(OK, rows,
                    IF Truthy(skip) /\ Truthy(limit)
                      THEN LimitOffset(ordered, Val(limit), Val(skip))
                      ELSE ordered)

\* task_crud.get_paginated_tasks: except Exception returns an empty page
get_paginated_tasks(rows, page, results_per_page, search, storage_error) ==
  LET page_rows == DbTask_all(rows, Some((page - 1) * results_per_page),
                              Some(results_per_page), search, storage_error)
      all == DbTask_all(rows, NULL, NULL, search, storage_error)
  IN  IF page_rows.raised \/ all.raised
        THEN Returned(OK, rows,
                      Some([results |-> <<>>, pagination |-> NULL]))
        ELSE Returned(OK, rows,
                      Some([results |-> page_rows.result,
                            pagination |-> Some(get_pagination(
                                             page, Len(page_rows.result),
                                             results_per_page,
                                             Len(all.result)))]))

\* the skip and limit a caller of DbUser.all or DbTask.all may pass: None
\* or a number
Skips == {NULL} \cup {Some(k) : k \in 0..MaxPerPage}
Limits == {NULL} \cup {Some(k) : k \in 1..MaxPerPage}

\* DbUser.all(db, skip, limit, search) called on its own; the list it
\* returns is kept as the field results of the result
UserAll(skip, limit, search, order) ==
  /\ order \in Orders(users)
  /\ last' = Call("DbUser.all",
                  [skip |-> skip, limit |-> limit, search |-> search],
                  OK,
                  Some([results |-> DbUser_all(order, skip, limit, search)]))
  /\ UNCHANGED <<users, user_roles, tasks, tasks_id_seq, projects,
                 projects_id_seq, now, role_req, del_req, sweep, upsert_req>>

\* DbTask.all(db, skip, limit, search) called on its own
TaskAll(skip, limit, search) ==
  /\ LET r == DbTask_all(tasks, skip, limit, search, FALSE)
     IN  last' = Call("DbTask.all",
                      [skip |-> skip, limit |-> limit, search |-> search],
                      r.status, Some([results |-> r.result]))
  /\ UNCHANGED <<users, user_roles, tasks, tasks_id_seq, projects,
                 projects_id_seq, now, role_req, del_req, sweep, upsert_req>>

\* task_crud.create_task when the INSERT of DbTask.create raises
create_task_storage_error(rows) ==
  except_Exception(Raised(INTERNAL_SERVER_ERROR, rows))

\* GET /users
UserList(page, results_per_page, search, order) ==
  /\ order \in Orders(users)
  /\ LET r == get_paginated_users(users, order, page, results_per_page,
                                  search)
     IN  last' = Call("get_users",
                      [page |-> page, results_per_page |-> results_per_page,
                       search |-> search, storage_error |-> FALSE],
                      r.status, r.result)
  /\ UNCHANGED <<users, user_roles, tasks, tasks_id_seq, projects,
                 projects_id_seq, now, role_req, del_req, sweep, upsert_req>>

\* GET /users/usernames
UserNames(search, order) ==
  /\ order \in Orders(users)
  /\ LET r == get_userlist(users, order, search)
     IN  last' = Call("get_userlist", [search |-> search], r.status,
                      r.result)
  /\ UNCHANGED <<users, user_roles, tasks, tasks_id_seq, projects,
                 projects_id_seq, now, role_req, del_req, sweep, upsert_req>>

\* GET /tasks
TaskList(page, results_per_page, search, storage_error) ==
  /\ LET r == get_paginated_tasks(tasks, page, results_per_page, search,
                                  storage_error)
     IN  last' = Call("read_tasks",
                      [page |-> page, results_per_page |-> results_per_page,
                       search |-> search, storage_error |-> storage_error],
                      r.status, r.result)
  /\ UNCHANGED <<users, user_roles, tasks, tasks_id_seq, projects,
                 projects_id_seq, now, role_req, del_req, sweep, upsert_req>>

\* POST /tasks while the storage fails
TaskCreateFails(task) ==
  /\ LET r == create_task_storage_error(tasks)
     IN  last' = Call("create_task",
                      [input |-> task, storage_error |-> TRUE],
                      r.status, r.result)
  /\ UNCHANGED <<users, user_roles, tasks, tasks_id_seq, projects,
                 projects_id_seq, now, role_req, del_req, sweep, upsert_req>>

(***************************************************************************)
(* project_crud and project_routes (table projects).                       *)
(***************************************************************************)
ProjectNames == {<<"a">>, <<"A", "b">>}
Searches == {<<>>, <<"B">>, <<"_", "b">>}

ProjectColumns == {"id", "name", "description", "is_active", "created_at",
                   "updated_at", "deleted_at"}
ProjectKeys == 1..(MaxProjects + 1)

\* ProjectCreate: name is required; description is None unless given
ProjectCreates ==
  [name : {Some(n) : n \in ProjectNames},
   description : {NULL, Some(<<"b">>)}]

\* ProjectUpdate: every field optional
ProjectUpdates ==
  [name : {Unset, Set(Some(<<"A", "b">>))},
   description : Opt({<<>>}),
   is_active : {Unset, Set(Some(FALSE)), Set(Some(TRUE))}]

\* the columns the INSERT of create_project leaves to the table: a fresh
\* id, both timestamps now, the row active and not deleted
ProjectDefaults(id, t) ==
  [id |-> id, is_active |-> Some(TRUE), created_at |-> Some(t),
   updated_at |-> Some(t), deleted_at |-> NULL]

\* create_project
create_project(rows, id, project, t) ==
  LET dflt == ProjectDefaults(id, t)
      new == [c \in ProjectColumns |->
                IF c \in DOMAIN project THEN project[c] ELSE dflt[c]]
  IN  Returned(OK, rows \cup {new}, Some(new))

\* SELECT * FROM projects WHERE id = %s, reading deleted rows too
get_project_unfiltered(rows, project_id) ==
  LET hit == {x \in rows : x.id = project_id}
  IN  IF hit = {} THEN Returned(OK, rows, NULL)
      ELSE Returned(OK, rows, Some(CHOOSE x \in hit : TRUE))

\* project_crud.get_project
get_project(rows, project_id) ==
  LET hit == {x \in rows : x.id = project_id /\ x.deleted_at = NULL}
  IN  IF hit = {} THEN Returned(OK, rows, NULL)
      ELSE Returned(OK, rows, Some(CHOOSE x \in hit : TRUE))

\* project_crud.get_paginated_projects
get_paginated_projects(rows, page, results_per_page, search) ==
  LET offset == (page - 1) * results_per_page
      search_term == Contains(search)
      matching == {x \in rows :
                     /\ x.deleted_at = NULL
                     /\ (ILike(x.name, search_term)
                           \/ ILike(x.description, search_term))}
      items == LimitOffset(OrderByCreatedDesc(matching), results_per_page,
                           offset)
  IN  Returned(OK, rows, [total |-> Cardinality(matching), items |-> items])

\* {k: v for k, v in project.model_dump().items() if v is not None}
update_fields(project) ==
  [k \in DOMAIN project |->
     IF project[k] = Set(NULL) THEN Unset ELSE project[k]]

\* update_project whose UPDATE has no `AND deleted_at IS NULL`
update_project_deleted_too(rows, project_id, project, t) ==
  LET fields == update_fields(project)
      hit == {x \in rows : x.id = project_id}
  IN  IF Keys(fields) = {}
        THEN get_project(rows, project_id)
      ELSE IF hit = {}
        THEN Returned(OK, rows, NULL)
      ELSE LET stamped == [c \in DOMAIN fields \cup {"updated_at"} |->
                             IF c = "updated_at" THEN Set(Some(t))
                             ELSE fields[c]]
               old == CHOOSE x \in hit : TRUE
               upd == Assign(old, stamped)
           IN  Returned(OK, (rows \ {old}) \cup {upd}, Some(upd))

\* project_crud.update_project
update_project(rows, project_id, project, t) ==
  LET fields == update_fields(project)
      hit == {x \in rows : x.id = project_id /\ x.deleted_at = NULL}
  IN  IF Keys(fields) = {}
        THEN get_project(rows, project_id)
      ELSE IF hit = {}
        THEN Returned(OK, rows, NULL)
      ELSE LET stamped == [c \in DOMAIN fields \cup {"updated_at"} |->
                             IF c = "updated_at" THEN Set(Some(t))
                             ELSE fields[c]]
               old == CHOOSE x \in hit : TRUE
               upd == Assign(old, stamped)
           IN  Returned(OK, (rows \ {old}) \cup {upd}, Some(upd))

\* delete_project whose UPDATE has no `AND deleted_at IS NULL`
delete_project_deleted_too(rows, project_id, t) ==
  LET hit == {x \in rows : x.id = project_id}
      upd == {[x EXCEPT !.deleted_at = Some(t), !.is_active = Some(FALSE)] :
                x \in hit}
  IN  Returned(OK, (rows \ hit) \cup upd, hit # {})

\* project_crud.delete_project
delete_project(rows, project_id, t) ==
  LET hit == {x \in rows : x.id = project_id /\ x.deleted_at = NULL}
      upd == {[x EXCEPT !.deleted_at = Some(t), !.is_active = Some(FALSE)] :
                x \in hit}
  IN  Returned(OK, (rows \ hit) \cup upd, hit # {})

\* if not project: raise HTTPException(status_code=404, ..)
or_404(r) ==
  IF r.result = NULL
    THEN RaisedWith(NOT_FOUND, r.rows, <<"Project not found">>)
    ELSE r

\* if not await project_crud.delete_project(..): raise HTTPException(404, ..)
true_or_404(r) == IF ~r.result THEN Raised(NOT_FOUND, r.rows) ELSE r

\* POST /projects
ProjectCreate(project) ==
  /\ projects_id_seq <= MaxProjects
  /\ now < Epoch + MaxClock
  /\ LET r == create_project(projects, projects_id_seq, project, now)
     IN  /\ projects' = r.rows
         /\ last' = Call("create_project", [input |-> project], r.status,
                         r.result)
  /\ projects_id_seq' = projects_id_seq + 1
  /\ now' = now + 1
  /\ UNCHANGED <<users, user_roles, tasks, tasks_id_seq, role_req, del_req,
                 sweep, upsert_req>>

\* GET /projects/{project_id}
ProjectGet(project_id) ==
  /\ LET r == or_404(get_project(projects, project_id))
     IN  last' = Call("get_project", [id |-> project_id], r.status, r.result)
  /\ UNCHANGED <<users, user_roles, tasks, tasks_id_seq, projects,
                 projects_id_seq, now, role_req, del_req, sweep, upsert_req>>

\* GET /projects
ProjectList(page, results_per_page, search) ==
  /\ LET r == get_paginated_projects(projects, page, results_per_page,
                                     search)
     IN  last' = Call("get_projects",
                      [page |-> page, results_per_page |-> results_per_page,
                       search |-> search], r.status, r.result)
  /\ UNCHANGED <<users, user_roles, tasks, tasks_id_seq, projects,
                 projects_id_seq, now, role_req, del_req, sweep, upsert_req>>

\* PATCH /projects/{project_id}
ProjectUpdate(project_id, project) ==
  /\ now < Epoch + MaxClock
  /\ LET r == or_404(update_project(projects, project_id, project, now))
     IN  /\ projects' = r.rows
         /\ last' = Call("update_project",
                         [id |-> project_id, input |-> project], r.status,
                         r.result)
  /\ now' = now + 1
  /\ UNCHANGED <<users, user_roles, tasks, tasks_id_seq, projects_id_seq,
                 role_req, del_req, sweep, upsert_req>>

\* DELETE /projects/{project_id}
ProjectDelete(project_id) ==
  /\ now < Epoch + MaxClock
  /\ LET r == true_or_404(delete_project(projects, project_id, now))
     IN  /\ projects' = r.rows
         /\ last' = Call("delete_project", [id |-> project_id], r.status,
                         r.result)
  /\ now' = now + 1
  /\ UNCHANGED <<users, user_roles, tasks, tasks_id_seq, projects_id_seq,
                 role_req, del_req, sweep, upsert_req>>

(***************************************************************************)
(* Specifications.  The tables are independent of each other but for       *)
(* users and user_roles, so each repository is also explored on its own.   *)
(***************************************************************************)
NoCall == Call("none", <<>>, OK, NULL)

\* a users table with at most one row per id, usernames unique
UserTables(ids, logins) ==
  {{[id |-> i, username |-> UsernameOf(i), name |-> NULL,
     last_login_at |-> f[i]] : i \in S} :
     S \in SUBSET ids, f \in [ids -> logins]}

\* a user_roles table with at most one row per pair
RoleTables(roles) ==
  {{[user_id |-> k[1], project_id |-> k[2], role |-> f[k]] : k \in S} :
     S \in SUBSET (UserIds \X ProjectIds),
     f \in [UserIds \X ProjectIds -> roles]}

InitEmpty ==
  /\ users = {}
  /\ user_roles = {}
  /\ tasks = {}
  /\ tasks_id_seq = 1
  /\ projects = {}
  /\ projects_id_seq = 1
  /\ now = Epoch
  /\ role_req = Idle
  /\ del_req = Idle
  /\ sweep = [s \in Sweepers |-> Idle]
  /\ last = NoCall
  /\ upsert_req = [c \in RoleClients |-> Idle]

\* user_roles and the deletion of users
InitRoles ==
  /\ users \in UserTables(RoleUserIds, {NULL})
  /\ user_roles = {}
  /\ tasks = {}
  /\ tasks_id_seq = 1
  /\ projects = {}
  /\ projects_id_seq = 1
  /\ now = Epoch
  /\ role_req = Idle
  /\ del_req = Idle
  /\ sweep = [s \in Sweepers |-> Idle]
  /\ last = NoCall
  /\ upsert_req = [c \in RoleClients |-> Idle]

NextRoles ==
  \/ \E p \in ProjectIds, u \in RoleUserIds, r \in ProjectRoles :
       RoleUpsert(p, u, r)
  \/ RoleSelect
  \/ \E u \in RoleUserIds : UserDeleteRoles(u)
  \/ UserDeleteUser

SpecRoles == InitRoles /\ [][NextRoles]_vars

\* several DbUserRole.create calls in flight at once over a table that may
\* hold roles already
ConcurrentRoles == {"MAPPER", "VALIDATOR", "PROJECT_MANAGER"}

\* a user_roles table with at most one row per pair, over the pairs that
\* the concurrent calls address: a pair has no role yet or the middle one
ConcurrentRoleTables ==
  {{[user_id |-> k[1], project_id |-> k[2], role |-> f[k]] : k \in S} :
     S \in SUBSET (RoleUserIds \X ProjectIds),
     f \in [RoleUserIds \X ProjectIds -> {"VALIDATOR"}]}

InitRolesConcurrent ==
  /\ users = {[id |-> i, username |-> UsernameOf(i), name |-> NULL,
               last_login_at |-> NULL] : i \in RoleUserIds}
  /\ user_roles \in ConcurrentRoleTables
  /\ tasks = {}
  /\ tasks_id_seq = 1
  /\ projects = {}
  /\ projects_id_seq = 1
  /\ now = Epoch
  /\ role_req = Idle
  /\ del_req = Idle
  /\ sweep = [s \in Sweepers |-> Idle]
  /\ last = NoCall
  /\ upsert_req = [c \in RoleClients |-> Idle]

NextRolesConcurrent ==
  \E c \in RoleClients :
    \/ \E p \in ProjectIds, u \in RoleUserIds, r \in ConcurrentRoles :
         ClientRoleUpsert(c, p, u, r)
    \/ ClientRoleSelect(c)

SpecRolesConcurrent == InitRolesConcurrent /\ [][NextRolesConcurrent]_vars

\* the users table
NextUsers ==
  \/ \E i \in UserIns, c \in BOOLEAN : UserCreate(i, c)
  \/ \E u \in UserIds, i \in UserUpdates : UserUpdate(u, i)
  \/ \E u \in UserIds : UserDeleteRoles(u)
  \/ UserDeleteUser

SpecUsers == InitEmpty /\ [][NextUsers]_vars

\* one inactivity sweep, nothing else writing
InitSweep ==
  /\ users \in UserTables(UserIds, {NULL} \cup {Some(t) : t \in LoginTimes})
  /\ user_roles \in RoleTables({"MAPPER", "PROJECT_MANAGER"})
  /\ tasks = {}
  /\ tasks_id_seq = 1
  /\ projects = {}
  /\ projects_id_seq = 1
  /\ now = Epoch
  /\ role_req = Idle
  /\ del_req = Idle
  /\ sweep = [s \in Sweepers |-> Idle]
  /\ last = NoCall
  /\ upsert_req = [c \in RoleClients |-> Idle]

NextSweep ==
  \/ SweepSelect(1)
  \/ SweepDeleteRoles(1)
  \/ SweepDeleteUser(1)
  \/ SweepReturn(1)

SpecSweep == InitSweep /\ [][NextSweep]_vars

\* DbUser.delete called one call at a time, nothing else writing
NextDelete ==
  \/ \E u \in UserIds : UserDeleteRoles(u)
  \/ UserDeleteUser

SpecDelete == InitSweep /\ [][NextDelete]_vars

\* the updates that write last_login_at and nothing else
LoginUpdates ==
  {i \in UserUpdates : i.name = Unset /\ i.last_login_at # Unset}

\* one sweep, with updates of last_login_at arriving between its statements
NextSweepUpdate ==
  \/ NextSweep
  \/ \E u \in UserIds, i \in LoginUpdates : UserUpdate(u, i)

SpecSweepUpdate == InitSweep /\ [][NextSweepUpdate]_vars

\* the sweep invoked twice, the two invocations interleaving
NextSweepTwice ==
  \E s \in Sweepers :
    \/ SweepSelect(s)
    \/ SweepDeleteRoles(s)
    \/ SweepDeleteUser(s)
    \/ SweepReturn(s)

SpecSweepTwice == InitSweep /\ [][NextSweepTwice]_vars

\* one sweep over a storage whose DELETE statements may fail
NextSweepFails ==
  \/ NextSweep
  \/ SweepDeleteFails(1)

SpecSweepFails == InitSweep /\ [][NextSweepFails]_vars

\* the tasks table
NextTasks ==
  \/ \E i \in TaskCreates : TaskCreate(i)
  \/ \E t \in TaskIds : TaskGet(t)
  \/ \E t \in TaskIds, i \in TaskUpdates : TaskUpdate(t, i)
  \/ \E t \in TaskIds : TaskDelete(t)

SpecTasks == InitEmpty /\ [][NextTasks]_vars

\* tasks created and read, and DbTask.delete called
NextTaskDelete ==
  \/ \E i \in TaskCreates : TaskCreate(i)
  \/ \E t \in TaskIds : TaskGet(t)
  \/ \E t \in TaskIds : TaskDbDelete(t)

SpecTaskDelete == InitEmpty /\ [][NextTaskDelete]_vars

\* the projects table
Pages == 1..MaxPage
PerPage == 1..MaxPerPage

NextProjects ==
  \/ \E i \in ProjectCreates : ProjectCreate(i)
  \/ \E k \in ProjectKeys : ProjectGet(k)
  \/ \E pg \in Pages, n \in PerPage, q \in Searches : ProjectList(pg, n, q)
  \/ \E k \in ProjectKeys, i \in ProjectUpdates : ProjectUpdate(k, i)
  \/ \E k \in ProjectKeys : ProjectDelete(k)

SpecProjects == InitEmpty /\ [][NextProjects]_vars

\* the tasks tables that n calls of create_task leave, one clock tick apart
RECURSIVE TaskTables(_)
TaskTables(n) ==
  IF n = 0 THEN {{}}
  ELSE {create_task(t, n, i, Epoch - (MaxTasks + 1) + n).rows :
          t \in TaskTables(n - 1), i \in TaskCreates}

\* the listings of users and of tasks, each over its own table: either the
\* users table or the tasks table holds rows
InitListing ==
  /\ \E kind \in {"users", "tasks"} :
       /\ users \in IF kind = "users"
                      THEN UserTables(UserIds, {NULL}) ELSE {{}}
       /\ \E n \in 0..MaxTasks :
            /\ kind = "users" => n = 0
            /\ tasks \in TaskTables(n)
            /\ tasks_id_seq = n + 1
  /\ user_roles = {}
  /\ projects = {}
  /\ projects_id_seq = 1
  /\ now = Epoch
  /\ role_req = Idle
  /\ del_req = Idle
  /\ sweep = [s \in Sweepers |-> Idle]
  /\ last = NoCall
  /\ upsert_req = [c \in RoleClients |-> Idle]

NextListing ==
  \/ \E i \in TaskCreates : TaskCreateFails(i)
  \/ \E pg \in Pages, n \in PerPage, q \in TaskSearches, e \in BOOLEAN :
       TaskList(pg, n, q, e)
  \/ \E pg \in Pages, n \in PerPage, q \in UserSearches :
       \E order \in Orders(users) : UserList(pg, n, q, order)
  \/ \E q \in UserSearches : \E order \in Orders(users) : UserNames(q, order)

SpecListing == InitListing /\ [][NextListing]_vars

\* get-by-id of users, tasks and projects, each over its own table, which
\* no step changes; the projects table holds no row, a live one or a
\* soft-deleted one
LookupProjectTables ==
  LET live == {create_project({}, 1, i, Epoch - 2).rows :
                 i \in ProjectCreates}
  IN  {{}} \cup live
        \cup {delete_project(t, 1, Epoch - 1).rows : t \in live}

InitLookup ==
  /\ \E kind \in {"users", "tasks", "projects"} :
       /\ users \in IF kind = "users"
                      THEN UserTables(UserIds, {NULL}) ELSE {{}}
       /\ user_roles \in IF kind = "users"
                           THEN RoleTables({"MAPPER", "PROJECT_MANAGER"})
                           ELSE {{}}
       /\ \E n \in 0..MaxTasks :
            /\ kind # "tasks" => n = 0
            /\ tasks \in TaskTables(n)
            /\ tasks_id_seq = n + 1
       /\ projects \in IF kind = "projects"
                         THEN LookupProjectTables ELSE {{}}
       /\ projects_id_seq = IF projects = {} THEN 1 ELSE 2
  /\ now = Epoch
  /\ role_req = Idle
  /\ del_req = Idle
  /\ sweep = [s \in Sweepers |-> Idle]
  /\ last = NoCall
  /\ upsert_req = [c \in RoleClients |-> Idle]

NextLookup ==
  \/ \E id \in UserIdentifiers : \E order \in Orders(users) :
       UserGet(id, order)
  \/ \E t \in TaskIds : TaskGet(t)
  \/ \E k \in ProjectKeys : ProjectGet(k)

SpecLookup == InitLookup /\ [][NextLookup]_vars

\* the paginated listings of users, tasks and projects, each over its own
\* table, which no step changes
InitPages ==
  /\ \E kind \in {"users", "tasks", "projects"} :
       /\ users \in IF kind = "users"
                      THEN UserTables(UserIds, {NULL}) ELSE {{}}
       /\ \E n \in 0..MaxTasks :
            /\ kind # "tasks" => n = 0
            /\ tasks \in TaskTables(n)
            /\ tasks_id_seq = n + 1
       /\ projects \in IF kind = "projects"
                         THEN LookupProjectTables ELSE {{}}
       /\ projects_id_seq = IF projects = {} THEN 1 ELSE 2
  /\ user_roles = {}
  /\ now = Epoch
  /\ role_req = Idle
  /\ del_req = Idle
  /\ sweep = [s \in Sweepers |-> Idle]
  /\ last = NoCall
  /\ upsert_req = [c \in RoleClients |-> Idle]

NextPages ==
  \/ \E pg \in Pages, n \in PerPage, q \in TaskSearches :
       TaskList(pg, n, q, FALSE)
  \/ \E pg \in Pages, n \in PerPage, q \in UserSearches :
       \E order \in Orders(users) : UserList(pg, n, q, order)
  \/ \E pg \in Pages, n \in PerPage, q \in Searches : ProjectList(pg, n, q)

SpecPages == InitPages /\ [][NextPages]_vars

\* the list queries DbUser.all and DbTask.all, each over its own table,
\* which no step changes
NextAll ==
  \/ \E k \in Skips, n \in Limits, q \in UserSearches :
       \E order \in Orders(users) : UserAll(k, n, q, order)
  \/ \E k \in Skips, n \in Limits, q \in TaskSearches : TaskAll(k, n, q)

SpecAll == InitListing /\ [][NextAll]_vars

\* the three update paths, each on its own table: one of the tables holds a
\* created row and the other two are empty
InitUpdate ==
  /\ \E kind \in {"users", "tasks", "projects"} :
       /\ users \in IF kind = "users"
                      THEN UserTables({1}, {Some(Epoch)}) \ {{}} ELSE {{}}
       /\ tasks \in IF kind = "tasks"
                      THEN {create_task({}, 1, i, Epoch - 1).rows :
                              i \in TaskCreates}
                      ELSE {{}}
       /\ tasks_id_seq = IF kind = "tasks" THEN 2 ELSE 1
       /\ projects \in IF kind = "projects"
                         THEN {create_project({}, 1, i, Epoch - 1).rows :
                                 i \in ProjectCreates}
                         ELSE {{}}
       /\ projects_id_seq = IF kind = "projects" THEN 2 ELSE 1
  /\ user_roles = {}
  /\ now = Epoch
  /\ role_req = Idle
  /\ del_req = Idle
  /\ sweep = [s \in Sweepers |-> Idle]
  /\ last = NoCall
  /\ upsert_req = [c \in RoleClients |-> Idle]

\* the id of the created row and an id that no row has
UpdateIds == {1, 2}

NextUpdate ==
  \/ \E u \in UpdateIds, i \in UserUpdates : UserUpdate(u, i)
  \/ \E t \in UpdateIds, i \in TaskUpdates : TaskUpdate(t, i)
  \/ \E k \in UpdateIds, i \in ProjectUpdates : ProjectUpdate(k, i)
  \/ \E k \in UpdateIds : ProjectDelete(k)

SpecUpdate == InitUpdate /\ [][NextUpdate]_vars

(***************************************************************************)
(* Properties.                                                             *)
(***************************************************************************)
Higher(a, b) == IF Rank(a) >= Rank(b) THEN a ELSE b

\* C1: a role upsert leaves, for its (user, project) pair, exactly one row,
\* holding the higher-ranked of the role stored before and the incoming
\* role (the incoming role when no row was stored), ranks in the order of
\* declaration of ProjectRole.
C1_HigherRankWins ==
  [][(role_req.pc = "idle" /\ role_req'.pc = "select") =>
       LET before == RoleRows(user_roles, role_req'.user_id,
                              role_req'.project_id)
           after == RoleRows(user_roles', role_req'.user_id,
                             role_req'.project_id)
       IN  /\ Cardinality(after) = 1
           /\ \A a \in after :
                /\ before = {} => a.role = role_req'.role
                /\ \A b \in before :
                     a.role = Higher(b.role, role_req'.role)]_vars

\* VALIDATOR is stored and MAPPER has just been upserted over it
C1_Witness ==
  /\ role_req.pc = "select"
  /\ role_req.role = "MAPPER"
  /\ \E r \in RoleRows(user_roles, role_req.user_id, role_req.project_id) :
       r.role = "VALIDATOR"

\* C2: the user_roles table never holds two rows for one (user, project)
\* pair, whatever upserts and user deletions have run and however their
\* statements interleave.
C2_OneRowPerPair ==
  \A r1, r2 \in user_roles :
    (r1.user_id = r2.user_id /\ r1.project_id = r2.project_id) => r1 = r2

\* a role upserted for a user between the two statements of that user's
\* deletion
C2_Witness ==
  /\ role_req.pc = "select"
  /\ del_req.pc = "users"
  /\ del_req.user_id = role_req.user_id
  /\ RoleRows(user_roles, role_req.user_id, role_req.project_id) # {}

TaskRow(rows, id) == CHOOSE x \in rows : x.id = id
HasTask(rows, id) == \E x \in rows : x.id = id

\* C4: an update of an existing task changes, in that task's row, only the
\* columns of the fields set in the input and updated_at, which moves
\* forward, and changes no other row; so with only is_completed = true the
\* title, description and due_date stay as they were.
C4_UpdateFrame ==
  [][(last'.op = "update_task" /\ last'.status = OK /\ now' # now) =>
       LET id == last'.args.id
           inp == last'.args.input
       IN  /\ HasTask(tasks, id) /\ HasTask(tasks', id)
           /\ \A c \in TaskColumns \ {"updated_at"} :
                c \notin Keys(inp) =>
                  TaskRow(tasks', id)[c] = TaskRow(tasks, id)[c]
           /\ Val(TaskRow(tasks', id).updated_at)
                > Val(TaskRow(tasks, id).updated_at)
           /\ \A x \in tasks : x.id # id => x \in tasks'
           /\ \A x \in tasks' : x.id # id => x \in tasks]_vars

\* a task with a description and a due date has just been updated with
\* is_completed = true alone, next to another task
C4_Witness ==
  /\ last.op = "update_task"
  /\ last.status = OK
  /\ Keys(last.args.input) = {"is_completed"}
  /\ last.args.input.is_completed = Set(Some(TRUE))
  /\ HasTask(tasks, last.args.id)
  /\ TaskRow(tasks, last.args.id).description = Some(<<"d">>)
  /\ TaskRow(tasks, last.args.id).due_date # NULL
  /\ TaskRow(tasks, last.args.id).is_completed = Some(TRUE)
  /\ Cardinality(tasks) = 2

\* C3: a soft-deleted project is returned by no get_project and listed by no
\* get_paginated_projects, its row is still stored, with deleted_at set and
\* is_active false, and no project row is ever removed.
C3_SoftDeleteHidesKeepsRow ==
  /\ {x.id : x \in projects} = 1..(projects_id_seq - 1)
  /\ (last.op = "delete_project" /\ last.status = OK) =>
       \E x \in projects : x.id = last.args.id /\ x.deleted_at # NULL
  /\ \A x \in projects :
       x.deleted_at # NULL =>
         /\ x.is_active = Some(FALSE)
         /\ get_project(projects, x.id).result = NULL
         /\ \A pg \in Pages, n \in PerPage, q \in Searches :
              x \notin Range(get_paginated_projects(projects, pg, n,
                                                    q).result.items)

\* a project has just been soft-deleted while another is still listed
C3_Witness ==
  /\ last.op = "delete_project"
  /\ last.status = OK
  /\ \E x \in projects : x.id = last.args.id /\ x.deleted_at # NULL
  /\ \E x \in projects : x.deleted_at = NULL

\* the table an update call works on, before and after the step
UpdateOps == {"DbUser.update", "update_task", "update_project"}
TableOf(op, us, ts, ps) ==
  IF op = "DbUser.update" THEN us ELSE IF op = "update_task" THEN ts ELSE ps
Row(rows, id) == CHOOSE x \in rows : x.id = id
HasRow(rows, id) == \E x \in rows : x.id = id
\* the row an update call addresses: for projects, soft-deleted rows are not
\* addressed
Addressed(op, rows, id) ==
  \E x \in rows : x.id = id /\ (op = "update_project" => x.deleted_at = NULL)

C6_EmptyInputIs400 ==
  [][(last'.op \in UpdateOps /\ last' # last
        /\ Keys(last'.args.input) = {}) =>
       /\ last'.status = BAD_REQUEST
       /\ UNCHANGED <<users, tasks, projects>>]_vars

\* C7 as stated: deleting a task id that has no row is answered 404 and
\* changes nothing.
C7_DeleteMissingIs404 ==
  [][(last'.op = "delete_task" /\ last' # last
        /\ ~HasRow(tasks, last'.args.id)) =>
       /\ last'.status = NOT_FOUND
       /\ tasks' = tasks]_vars

\* C8 as stated: an update that sets some field to a value and is addressed
\* to an id that matches no row (for projects: no row that is not deleted) is
\* answered 404 and changes nothing.
C8_UpdateMissingIs404 ==
  [][(/\ last'.op \in UpdateOps
      /\ last' # last
      /\ \E f \in DOMAIN last'.args.input :
           last'.args.input[f] \notin {Unset, Set(NULL)}
      /\ ~Addressed(last'.op, TableOf(last'.op, users, tasks, projects),
                    last'.args.id)) =>
       /\ last'.status = NOT_FOUND
       /\ UNCHANGED <<users, tasks, projects>>]_vars

\* C9 as stated: a strict DbUser.create is answered 409 exactly when the
\* username is taken, and otherwise inserts the user and returns the row.
C9_ConflictIffUsernameTaken ==
  [][(last'.op = "DbUser.create" /\ last' # last
        /\ ~last'.args.ignore_conflict) =>
       LET taken == \E u \in users :
                      u.username = last'.args.user_in.username
       IN  /\ (last'.status = CONFLICT) <=> taken
           /\ ~taken =>
                /\ last'.result # NULL
                /\ Val(last'.result) \in users'
                /\ Val(last'.result).id = last'.args.user_in.id]_vars

\* C10: when a sweep that ran alone is over, the users left are those the
\* table held at its start whose last_login_at is NULL or not earlier than
\* now less INACTIVITY_THRESHOLD days, unchanged, with their role rows.
C10_SweepDeletesExactlyOverdue ==
  sweep[1].pc = "done" =>
    LET before == sweep[1].before
        gone == {u \in before.users :
                   /\ u.last_login_at # NULL
                   /\ Val(u.last_login_at) < now - INACTIVITY_THRESHOLD}
    IN  /\ users = before.users \ gone
        /\ user_roles = {r \in before.user_roles :
                           r.user_id \notin {u.id : u \in gone}}

\* a sweep is over that found one user overdue, with a role row, and one
\* whose last login is exactly INACTIVITY_THRESHOLD days old
C10_Witness ==
  /\ sweep[1].pc = "done"
  /\ Cardinality(sweep[1].before.users) = 2
  /\ Cardinality(users) = 1
  /\ \E u \in users :
       u.last_login_at = Some(now - INACTIVITY_THRESHOLD)
  /\ \E r \in sweep[1].before.user_roles : r \notin user_roles

\* the users a sweep selected: those of the table it read whose last login
\* is earlier than now less INACTIVITY_THRESHOLD days
Selected(s) ==
  {u.id : u \in {x \in sweep[s].before.users :
                   /\ x.last_login_at # NULL
                   /\ Val(x.last_login_at) < now - INACTIVITY_THRESHOLD}}

\* C11: when two interleaved sweeps are both over, neither has failed and
\* the store is what one sweep alone leaves: the users that were not overdue
\* and their role rows, whichever of the two tables either sweep started
\* from.
C11_TwoSweepsAsOne ==
  /\ \A s \in Sweepers : sweep[s].pc # "failed"
  /\ (\A s \in Sweepers : sweep[s].pc = "done") =>
       \A s \in Sweepers :
         /\ users = {u \in sweep[s].before.users : u.id \notin Selected(s)}
         /\ user_roles = {r \in sweep[s].before.user_roles :
                            r.user_id \notin Selected(s)}

\* both sweeps are over, both had selected the same overdue user from the
\* same table, and a user that was not overdue is left
C11_Witness ==
  /\ \A s \in Sweepers : sweep[s].pc = "done"
  /\ sweep[1].before = sweep[2].before
  /\ Selected(1) # {}
  /\ \E r \in sweep[1].before.user_roles : r.user_id \in Selected(1)
  /\ users # {}

\* C12 as stated: when a sweep has ended on a failed deletion, every other
\* user it had selected is deleted.
C12_FailureDoesNotBlockRest ==
  sweep[1].pc = "failed" =>
    \A id \in Selected(1) \ {sweep[1].user_id} :
      ~\E u \in users : u.id = id

\* C13: at every moment, for every pair for which upsert statements have
\* run, the table holds one row, and its role is the highest-ranked among
\* the roles those statements carried and the roles they found stored; so
\* when all the concurrent calls are over no upserted role is lost.
C13_ConcurrentUpsertsKeepHighest ==
  \A p \in ProjectIds, u \in RoleUserIds :
    LET cs == {c \in RoleClients :
                 /\ upsert_req[c].pc \in {"select", "done"}
                 /\ upsert_req[c].project_id = p
                 /\ upsert_req[c].user_id = u}
        seen == {upsert_req[c].role : c \in cs}
                  \cup {r.role : r \in UNION {upsert_req[c].before : c \in cs}}
    IN  cs # {} =>
          /\ Cardinality(RoleRows(user_roles, u, p)) = 1
          /\ \A row \in RoleRows(user_roles, u, p) :
               /\ row.role \in seen
               /\ \A r \in seen : Rank(row.role) >= Rank(r)

\* two calls are in flight for one pair, PROJECT_MANAGER upserted first and
\* MAPPER after it, and a third call for the pair is over
C13_Witness ==
  \E c1, c2, c3 \in RoleClients :
    /\ upsert_req[c1].pc = "select"
    /\ upsert_req[c2].pc = "select"
    /\ upsert_req[c3].pc = "done"
    /\ upsert_req[c1].role = "PROJECT_MANAGER"
    /\ upsert_req[c2].role = "MAPPER"
    /\ upsert_req[c3].role = "VALIDATOR"
    /\ upsert_req[c1].project_id = upsert_req[c2].project_id
    /\ upsert_req[c1].user_id = upsert_req[c2].user_id
    /\ \E r \in upsert_req[c2].before : r.role = "PROJECT_MANAGER"
    /\ \E r \in upsert_req[c1].before : r.role = "VALIDATOR"
    /\ \E r \in user_roles : r.role = "PROJECT_MANAGER"

\* C14: the pagination info of a listing of users or of tasks counts the
\* records that match the search as total, gives as total_pages the least
\* number of pages of results_per_page that hold them, has_next exactly when
\* page * results_per_page < total, and has_prev exactly when page > 1.
C14_PaginationArithmetic ==
  [][(/\ last' # last
      /\ last'.op \in {"get_users", "read_tasks"}
      /\ ~last'.args.storage_error) =>
       LET page == last'.args.page
           n == last'.args.results_per_page
           total == IF last'.op = "get_users"
                      THEN Cardinality({u \in users :
                                          UserMatches(u, last'.args.search)})
                      ELSE Cardinality({x \in tasks :
                                          TaskMatches(x, last'.args.search)})
       IN  /\ Val(last'.result).pagination # NULL
           /\ LET info == Val(Val(last'.result).pagination)
              IN  /\ info.total = total
                  /\ info.total_pages * n >= total
                  /\ info.total_pages >= 0
                  /\ info.total_pages > 0 =>
                       (info.total_pages - 1) * n < total
                  /\ info.has_next <=> (page * n < total)
                  /\ info.has_prev <=> (page > 1)]_vars

\* the first page of one user per page over two users: a next page and no
\* previous one; total and total_pages are both 2
C14_Witness ==
  /\ last.op = "get_users"
  /\ last.args.page = 1
  /\ last.args.results_per_page = 1
  /\ last.args.search = <<>>
  /\ Cardinality(users) = 2
  /\ Val(Val(last.result).pagination).has_next
  /\ ~Val(Val(last.result).pagination).has_prev
  /\ Val(Val(last.result).pagination).total_pages = 2

\* s occurs in t as a run of consecutive characters, letter case aside
IsSubstring(s, t) ==
  \E i \in 0..(Len(t) - Len(s)) :
    \A k \in 1..Len(s) : Lower(t[i + k]) = Lower(s[k])

\* C15 as stated: the list of users answered for a non-empty search term
\* holds exactly the stored users whose username contains the term, letter
\* case aside.
C15_SearchIsSubstring ==
  [][(/\ last' # last
      /\ last'.op = "get_userlist"
      /\ last'.args.search # <<>>) =>
       {x.id : x \in Range(Val(last'.result).results)}
         = {u.id : u \in {v \in users :
                            IsSubstring(last'.args.search, v.username)}}]_vars

\* p is the start of t, letter case aside
IsPrefix(p, t) ==
  Len(p) <= Len(t) /\ \A k \in 1..Len(p) : Lower(t[k]) = Lower(p[k])

\* C16 as stated: a numeric identifier finds a user exactly when a user has
\* that id, and that user is the one returned; a text identifier finds a
\* user exactly when a username starts with it, letter case aside, and the
\* user returned is such a user.
C16_LookupByIdOrPrefix ==
  last.op = "get_user" =>
    LET id == last.args.identifier
        fits(u) == IF IsNumeric(id) THEN u.id = ParseInt(id)
                   ELSE IsPrefix(id, u.username)
    IN  /\ (last.status = OK) <=> (\E u \in users : fits(u))
        /\ last.status = OK => fits(Val(last.result))
        /\ last.status # OK => last.status = NOT_FOUND

\* C17 as stated: the user looked up carries in project_roles one entry
\* project id -> role for each of that user's user_roles rows and no other.
C17_ProjectRolesOfUser ==
  (last.op = "get_user" /\ last.status = OK) =>
    LET user == Val(last.result)
        entries == IF user.project_roles = NULL THEN {}
                   ELSE Val(user.project_roles)
    IN  entries = {<<r.project_id, r.role>> :
                     r \in {x \in user_roles : x.user_id = user.id}}

\* the detail holds the identifier as a run of consecutive pieces
NamesId(detail, id) ==
  \E i \in 0..(Len(detail) - Len(id)) :
    \A k \in 1..Len(id) : detail[i + k] = id[k]

\* C18 as stated: a get of a task id with no row, or of a project id with no
\* row that is not soft-deleted, is answered 404, and every 404 of a get of
\* a task, of a user or of a project carries a detail that names the
\* identifier asked for.
C18_NotFoundNamesIdentifier ==
  /\ (last.op = "get_task" /\ ~\E x \in tasks : x.id = last.args.id)
       => last.status = NOT_FOUND
  /\ (last.op = "get_project"
        /\ ~\E x \in projects :
               x.id = last.args.id /\ x.deleted_at = NULL)
       => last.status = NOT_FOUND
  /\ (last.op \in {"get_task", "get_project"}
        /\ last.status = NOT_FOUND)
       => NamesId(Val(last.result).detail, <<ToString(last.args.id)>>)
  /\ (last.op = "get_user" /\ last.status = NOT_FOUND)
       => NamesId(Val(last.result).detail, last.args.identifier)

\* C19 as stated: a listing of tasks or a creation of a task during which
\* the storage fails is answered with a status of 500 or above.
C19_StorageFailureIs5xx ==
  (last.op \in {"read_tasks", "create_task"} /\ last.args.storage_error)
    => last.status >= INTERNAL_SERVER_ERROR

\* C20: the first statement of DbUser.delete leaves the users table and the
\* role rows of every other user as they were; when the call completes, no
\* users row and no user_roles row of that id exists, and the users rows and
\* the role rows of every other user are as they were.
C20_DeleteRemovesUserAndRoles ==
  [][/\ (del_req.pc = "idle" /\ del_req'.pc = "users") =>
         /\ users' = users
         /\ {r \in user_roles' : r.user_id # del_req'.user_id}
              = {r \in user_roles : r.user_id # del_req'.user_id}
         /\ user_roles' \subseteq user_roles
     /\ (del_req.pc = "users" /\ del_req'.pc = "idle") =>
         /\ ~\E u \in users' : u.id = del_req.user_id
         /\ ~\E r \in user_roles' : r.user_id = del_req.user_id
         /\ users' = {u \in users : u.id # del_req.user_id}
         /\ user_roles' = user_roles
         /\ last'.status = NO_CONTENT]_vars

\* user 1 was deleted while user 2 and a role row of user 2 are still there
C20_Witness ==
  /\ del_req.pc = "idle"
  /\ last.op = "DbUser.delete"
  /\ last.args.user_id = 1
  /\ ~\E u \in users : u.id = 1
  /\ \E u \in users : u.id = 2
  /\ \E r \in user_roles : r.user_id = 2

\* C21: DbTask.delete returns true exactly when a row of the id was there
\* before the call; after the call no row of the id is there and every
\* other row is as it was.
C21_DeleteReportsRemoval ==
  [][(last'.op = "DbTask.delete" /\ last' # last) =>
       /\ Val(last'.result).deleted <=> HasRow(tasks, last'.args.id)
       /\ ~HasRow(tasks', last'.args.id)
       /\ tasks' = {x \in tasks : x.id # last'.args.id}]_vars

\* task 1 was deleted, reported as removed, and task 2 is still there
C21_Witness ==
  /\ last.op = "DbTask.delete"
  /\ last.args.id = 1
  /\ Val(last.result).deleted
  /\ ~HasRow(tasks, 1)
  /\ HasRow(tasks, 2)

\* the paginated listings
ListOps == {"get_users", "read_tasks", "get_projects"}

\* the number of records of the table that the search of the call matches
Matching(call) ==
  IF call.op = "get_users"
    THEN Cardinality({u \in users : UserMatches(u, call.args.search)})
  ELSE IF call.op = "read_tasks"
    THEN Cardinality({x \in tasks : TaskMatches(x, call.args.search)})
  ELSE Cardinality({x \in projects :
                      /\ x.deleted_at = NULL
                      /\ (ILike(x.name, Contains(call.args.search))
                            \/ ILike(x.description,
                                     Contains(call.args.search)))})

\* the records a listing answered
Results(call) ==
  IF call.op = "get_projects" THEN call.result.items
  ELSE Val(call.result).results

\* C22: a listing of users, tasks or projects asked for a page after the
\* last page that holds a matching record is answered 200 with an empty
\* list of results.
C22_PageBeyondLastIsEmpty ==
  (last.op \in ListOps
     /\ (last.args.page - 1) * last.args.results_per_page >= Matching(last))
    => /\ last.status = OK
       /\ Results(last) = <<>>

\* page 2 of two tasks, two to a page, was asked for and came back empty
C22_Witness ==
  /\ last.op = "read_tasks"
  /\ last.args.page = 2
  /\ last.args.results_per_page = 2
  /\ Matching(last) = 2
  /\ last.status = OK
  /\ Results(last) = <<>>

\* how many of total rows lie at the positions skip+1 .. skip+limit
Bounded(total, skip, limit) ==
  IF total <= skip THEN 0
  ELSE IF total - skip < limit THEN total - skip ELSE limit

\* C23 as stated: DbUser.all and DbTask.all given both a skip and a limit
\* return the rows at the positions skip+1 .. skip+limit of the ordered
\* rows that match the search, and given no skip or no limit return all the
\* rows that match.
C23_BoundAppliedWhenBothSupplied ==
  (last.op \in {"DbUser.all", "DbTask.all"}) =>
    LET results == Val(last.result).results
        skip == last.args.skip
        limit == last.args.limit
        total ==
          IF last.op = "DbUser.all"
            THEN Cardinality({u \in users :
                                UserMatches(u, last.args.search)})
            ELSE Cardinality({x \in tasks :
                                TaskMatches(x, last.args.search)})
    IN  /\ (skip # NULL /\ limit # NULL) =>
             Len(results) = Bounded(total, Val(skip), Val(limit))
        /\ (skip = NULL \/ limit = NULL) => Len(results) = total
        /\ last.op = "DbTask.all" =>
             LET ordered == OrderByCreatedDesc(
                              {x \in tasks :
                                 TaskMatches(x, last.args.search)})
             IN  results =
                   IF skip # NULL /\ limit # NULL
                     THEN SubSeq(ordered, Val(skip) + 1,
                                 Val(skip) + Len(results))
                     ELSE ordered

\* the least number of pages of n records that hold total records
TotalPages(total, n) == (total + n - 1) \div n

\* the results of the pages 1..pg of n records of a listing, one after the
\* other, with no search
RECURSIVE TaskPages(_, _)
TaskPages(pg, n) ==
  IF pg = 0 THEN <<>>
  ELSE TaskPages(pg - 1, n)
         \o Val(get_paginated_tasks(tasks, pg, n, <<>>, FALSE).result).results

RECURSIVE UserPages(_, _, _)
UserPages(order, pg, n) ==
  IF pg = 0 THEN <<>>
  ELSE UserPages(order, pg - 1, n)
         \o Val(get_paginated_users(users, order, pg, n, <<>>).result).results

RECURSIVE ProjectPages(_, _)
ProjectPages(pg, n) ==
  IF pg = 0 THEN <<>>
  ELSE ProjectPages(pg - 1, n)
         \o get_paginated_projects(projects, pg, n, <<>>).result.items

\* the sequence holds every record of the set once and nothing else
HoldsEachOnce(seq, rows) ==
  Len(seq) = Cardinality(rows) /\ Range(seq) = rows

\* C24 as stated: a paginated listing of users, tasks or projects answers
\* with at most results_per_page records, and over the table as it is the
\* pages 1..total_pages of that page size hold every record once.
C24_PagesPartitionRecords ==
  last.op \in ListOps =>
    LET n == last.args.results_per_page
        live == {x \in projects : x.deleted_at = NULL}
    IN  /\ Len(Results(last)) <= n
        /\ last.op = "read_tasks" =>
             HoldsEachOnce(
               TaskPages(TotalPages(Cardinality(tasks), n), n), tasks)
        /\ last.op = "get_users" =>
             \A order \in Orders(users) :
               HoldsEachOnce(
                 UserPages(order, TotalPages(Cardinality(users), n), n),
                 users)
        /\ last.op = "get_projects" =>
             HoldsEachOnce(
               ProjectPages(TotalPages(Cardinality(live), n), n), live)

\* C25: in every state that create_project, update_project and
\* delete_project reach, a project whose deleted_at is set has is_active
\* false.
C25_DeletedIsInactive ==
  \A x \in projects : x.deleted_at # NULL => x.is_active = Some(FALSE)

\* an update that sets is_active to true was addressed to a project that is
\* soft-deleted
C25_Witness ==
  /\ last.op = "update_project"
  /\ last.args.input.is_active = Set(Some(TRUE))
  /\ \E x \in projects : x.id = last.args.id /\ x.deleted_at # NULL

\* C26: a project whose deleted_at is set keeps every field of its row in
\* every later step; a get, an update or a delete addressed to it is
\* answered 404, and no listing holds it.
C26_SoftDeletedIsFrozen ==
  [][\A x \in projects :
       x.deleted_at # NULL =>
         /\ x \in projects'
         /\ (last'.op \in {"get_project", "update_project", "delete_project"}
               /\ last'.args.id = x.id)
              => last'.status = NOT_FOUND
         /\ last'.op = "get_projects"
              => x \notin Range(last'.result.items)]_vars

\* a delete was addressed to a project that was already soft-deleted
C26_Witness ==
  /\ last.op = "delete_project"
  /\ last.status = NOT_FOUND
  /\ \E x \in projects : x.id = last.args.id /\ x.deleted_at # NULL

\* C27 as stated: a users row that the sweep deletes holds, when the DELETE
\* runs, a last_login_at that is earlier than the deletion threshold of the
\* sweep.
C27_SweepSparesRefreshedUser ==
  [][(sweep[1].pc = "users" /\ sweep'[1].pc = "loop") =>
       \A u \in users \ users' :
         /\ u.last_login_at # NULL
         /\ Val(u.last_login_at) < sweep[1].deletion_threshold]_vars

====
